---- MODULE Spec2Model ----
(***************************************************************************)
(* A model of package jsonpointer (RFC 6901 pointers over Go values).      *)
(*                                                                         *)
(* Go strings are modelled as sequences of one-character strings, so that  *)
(* strings.Replace, strings.Split and strconv work on them character by    *)
(* character.  Str renders such a sequence as a TLA+ string for messages.  *)
(***************************************************************************)
EXTENDS Integers, Sequences, FiniteSets, TLC

VARIABLES
  raw,        \* the string handed to New
  ptr,        \* the result of New(raw): [done, toks, err]
  str,        \* the result of ptr.String(): [done, s]
  reparsed,   \* the result of New(str): [done, toks, err]
  escaped,    \* the result of escapeToken(raw): [done, s]
  unescaped,  \* the result of unescapeToken(escaped): [done, s]
  heap,       \* the backing arrays of the Pointer slices
  ptrP,       \* a Pointer (slice header): the receiver of the calls
  ptrQ,       \* a Pointer: the argument of Join and RelativeTo
  ptrR,       \* a Pointer: what the last call returned
  call,       \* the last call: its arguments as they were, and its outcome
  docRoot,    \* the document Get and Set are called on
  sets,       \* the number of Set calls made on docRoot
  last        \* the last Get or Set call: its arguments and its outcome

synVars == <<raw, ptr, str, reparsed, escaped, unescaped>>

ptrVars == <<heap, ptrP, ptrQ, ptrR, call>>

travVars == <<docRoot, sets, last>>

vars == <<synVars, ptrVars, travVars>>

\* ------------------------------------------------------------------------
\* Bounds of the model
\* ------------------------------------------------------------------------

\* Longest raw input string handed to New in SpecSyntax.
MaxLen == 4

\* The caller appends to a returned Pointer while it is shorter than this.
MaxToks == 3

\* ------------------------------------------------------------------------
\* error.go
\* ------------------------------------------------------------------------

ErrUnknown == 0

ErrInvalidJSONPointer == 1

ErrGet == 2

ErrSet == 3

\* The nil error.
NoError == [kind |-> "nil", errType |-> ErrUnknown, msg |-> "", args |-> <<>>, cause |-> ""]

\* newError: a *Error of the given type; args are the formatted arguments.
newError(errType, msg, args) ==
  [kind |-> "Error", errType |-> errType, msg |-> msg, args |-> args, cause |-> ""]

\* wrapError: a *Error that also carries its cause.
wrapError(cause, errType, msg, args) ==
  [kind |-> "Error", errType |-> errType, msg |-> msg, args |-> args, cause |-> cause]

\* errors.New / fmt.Errorf: an error that is not a *Error (it has no ErrType).
plainError(msg, args) ==
  [kind |-> "plain", errType |-> ErrUnknown, msg |-> msg, args |-> args, cause |-> ""]

\* ErrType.String
ErrTypeString(t) ==
  CASE t = ErrInvalidJSONPointer -> "invalid pointer"
    [] t = ErrGet -> "get"
    [] t = ErrSet -> "set"
    [] OTHER -> "unknown"

IsNil(err) == err.kind = "nil"

\* ------------------------------------------------------------------------
\* Strings
\* ------------------------------------------------------------------------

RECURSIVE Str(_)
Str(cs) == IF cs = <<>> THEN "" ELSE cs[1] \o Str(Tail(cs))

HasPrefix(s, pre) ==
  /\ Len(s) >= Len(pre)
  /\ SubSeq(s, 1, Len(pre)) = pre

Drop(s, n) == SubSeq(s, n + 1, Len(s))

\* strings.Index: the 1-based position of the first occurrence of sep, or 0.
Index(s, sep) ==
  LET hits == {i \in 1..(Len(s) - Len(sep) + 1) : SubSeq(s, i, i + Len(sep) - 1) = sep}
  IN IF hits = {} THEN 0 ELSE CHOOSE i \in hits : \A j \in hits : i <= j

\* strings.Replace(s, old, new, -1) for a non-empty old: every non-overlapping
\* occurrence, found left to right.
RECURSIVE Replace(_, _, _)
Replace(s, old, new) ==
  IF Len(s) < Len(old) THEN s
  ELSE IF HasPrefix(s, old) THEN new \o Replace(Drop(s, Len(old)), old, new)
  ELSE <<s[1]>> \o Replace(Tail(s), old, new)

\* strings.Split(s, sep) for a non-empty sep.
RECURSIVE Split(_, _)
Split(s, sep) ==
  LET i == Index(s, sep)
  IN IF i = 0 THEN <<s>>
     ELSE <<SubSeq(s, 1, i - 1)>> \o Split(Drop(s, i + Len(sep) - 1), sep)

\* strings.Join(elems, sep)
RECURSIVE StringsJoin(_, _)
StringsJoin(elems, sep) ==
  IF elems = <<>> THEN <<>>
  ELSE IF Len(elems) = 1 THEN elems[1]
  ELSE elems[1] \o sep \o StringsJoin(Tail(elems), sep)

\* ------------------------------------------------------------------------
\* pointer.go: escaping and parsing
\* ------------------------------------------------------------------------

separator == <<"/">>

escapedSeparator == <<"~", "1">>

tilde == <<"~">>

escapedTilde == <<"~", "0">>

\* unescapeToken with its two replacements in the other order.
unescapeTokenSwapped(tok) ==
  Replace(Replace(tok, escapedTilde, tilde), escapedSeparator, separator)

unescapeToken(tok) ==
  Replace(Replace(tok, escapedSeparator, separator), escapedTilde, tilde)

escapeToken(tok) ==
  Replace(Replace(tok, tilde, escapedTilde), separator, escapedSeparator)

\* A (Pointer, error) result.
PtrResult(toks, err) == [toks |-> toks, err |-> err]

\* parse that splits the whole string, leading '/' included.
parseNoStrip(s) ==
  IF Len(s) = 0 THEN PtrResult(<<>>, NoError)
  ELSE IF s[1] # "/"
    THEN PtrResult(<<>>, newError(ErrInvalidJSONPointer,
                     "non-empty references must begin with a '/' character", <<>>))
  ELSE LET toks == Split(s, separator)
       IN PtrResult([i \in 1..Len(toks) |-> unescapeToken(toks[i])], NoError)

parse(s) ==
  IF Len(s) = 0 THEN PtrResult(<<>>, NoError)
  ELSE IF s[1] # "/"
    THEN PtrResult(<<>>, newError(ErrInvalidJSONPointer,
                     "non-empty references must begin with a '/' character", <<>>))
  ELSE LET toks == Split(Tail(s), separator)
       IN PtrResult([i \in 1..Len(toks) |-> unescapeToken(toks[i])], NoError)

\* Pointer.String
String(p) ==
  IF Len(p) = 0 THEN <<>>
  ELSE <<"/">> \o StringsJoin([i \in 1..Len(p) |-> escapeToken(p[i])], <<"/">>)

\* Pointer.IsEmpty
IsEmpty(p) == Len(p) = 0

\* ------------------------------------------------------------------------
\* net/url as New uses it: url.Parse(v) and the Fragment of its result
\* ------------------------------------------------------------------------

Digits == <<"0", "1", "2", "3", "4", "5", "6", "7", "8", "9">>

HexLower == <<"a", "b", "c", "d", "e", "f">>

HexUpper == <<"A", "B", "C", "D", "E", "F">>

Letters ==
  {"a", "b", "c", "d", "e", "f", "g", "h", "i", "j", "k", "l", "m", "n", "o", "p", "q",
   "r", "s", "t", "u", "v", "w", "x", "y", "z",
   "A", "B", "C", "D", "E", "F", "G", "H", "I", "J", "K", "L", "M", "N", "O", "P", "Q",
   "R", "S", "T", "U", "V", "W", "X", "Y", "Z"}

\* The printable ASCII characters, from 0x20 to 0x7E (0x60 by its code).
Ascii ==
  <<" ", "!", "\"", "#", "$", "%", "&", "'", "(", ")", "*", "+", ",", "-", ".", "/",
    "0", "1", "2", "3", "4", "5", "6", "7", "8", "9", ":", ";", "<", "=", ">", "?",
    "@", "A", "B", "C", "D", "E", "F", "G", "H", "I", "J", "K", "L", "M", "N", "O",
    "P", "Q", "R", "S", "T", "U", "V", "W", "X", "Y", "Z", "[", "\\", "]", "^", "_",
    "\\x60", "a", "b", "c", "d", "e", "f", "g", "h", "i", "j", "k", "l", "m", "n", "o",
    "p", "q", "r", "s", "t", "u", "v", "w", "x", "y", "z", "{", "|", "}", "~">>

PosIn(seq, c) ==
  IF \E i \in 1..Len(seq) : seq[i] = c THEN CHOOSE i \in 1..Len(seq) : seq[i] = c ELSE 0

IsDigit(c) == PosIn(Digits, c) # 0

ishex(c) == IsDigit(c) \/ PosIn(HexLower, c) # 0 \/ PosIn(HexUpper, c) # 0

unhex(c) ==
  IF IsDigit(c) THEN PosIn(Digits, c) - 1
  ELSE IF PosIn(HexLower, c) # 0 THEN PosIn(HexLower, c) + 9
  ELSE PosIn(HexUpper, c) + 9

\* The character of a decoded byte: itself when printable, "\xHH" otherwise.
ByteChar(n) ==
  IF n >= 32 /\ n <= 126 THEN Ascii[n - 31]
  ELSE "\\x" \o (Digits \o HexUpper)[(n \div 16) + 1] \o (Digits \o HexUpper)[(n % 16) + 1]

\* url.unescape's first pass (fragment and path mode): every '%' is followed
\* by two hex digits.
RECURSIVE ValidEscapes(_)
ValidEscapes(s) ==
  IF s = <<>> THEN TRUE
  ELSE IF s[1] = "%"
    THEN /\ Len(s) >= 3
         /\ ishex(s[2])
         /\ ishex(s[3])
         /\ ValidEscapes(Drop(s, 3))
  ELSE ValidEscapes(Tail(s))

\* url.unescape's second pass: %HH becomes the byte HH.
RECURSIVE PercentDecode(_)
PercentDecode(s) ==
  IF s = <<>> THEN <<>>
  ELSE IF s[1] = "%"
    THEN <<ByteChar(16 * unhex(s[2]) + unhex(s[3]))>> \o PercentDecode(Drop(s, 3))
  ELSE <<s[1]>> \o PercentDecode(Tail(s))

\* url.getScheme: the length of the scheme (0: none), or -1 for a leading ':'.
RECURSIVE SchemeLen(_, _)
SchemeLen(s, i) ==
  IF i > Len(s) THEN 0
  ELSE IF s[i] \in Letters THEN SchemeLen(s, i + 1)
  ELSE IF IsDigit(s[i]) \/ s[i] \in {"+", "-", "."}
    THEN (IF i = 1 THEN 0 ELSE SchemeLen(s, i + 1))
  ELSE IF s[i] = ":" THEN (IF i = 1 THEN -1 ELSE i - 1)
  ELSE 0

\* url.parse(u, false) of the part before '#': "" when it is accepted, the
\* cause otherwise.  Queries, userinfo, ports and IP literals are left out:
\* no input of the model has '?', '@', '[' or a ':' after the scheme.
UrlPrefixError(u) ==
  LET n == SchemeLen(u, 1)
      rest == IF n > 0 THEN Drop(u, n + 1) ELSE u
      seg == IF Index(rest, <<"/">>) = 0 THEN rest ELSE SubSeq(rest, 1, Index(rest, <<"/">>) - 1)
      afterAuth == IF HasPrefix(rest, <<"/", "/">>) /\ ~HasPrefix(rest, <<"/", "/", "/">>)
                     THEN LET a == Drop(rest, 2)
                          IN IF Index(a, <<"/">>) = 0 THEN <<>> ELSE Drop(a, Index(a, <<"/">>) - 1)
                     ELSE rest
  IN IF n = -1 THEN "missing protocol scheme"
     ELSE IF ~HasPrefix(rest, <<"/">>) /\ n > 0 THEN ""
     ELSE IF ~HasPrefix(rest, <<"/">>) /\ Index(seg, <<":">>) # 0
       THEN "first path segment in URL cannot contain colon"
     ELSE IF ~ValidEscapes(afterAuth) THEN "invalid URL escape"
     ELSE ""

\* url.Parse(v): [err, Fragment].
UrlParse(v) ==
  LET i == Index(v, <<"#">>)
      u == IF i = 0 THEN v ELSE SubSeq(v, 1, i - 1)
      frag == IF i = 0 THEN <<>> ELSE Drop(v, i)
  IN IF UrlPrefixError(u) # "" THEN [err |-> UrlPrefixError(u), Fragment |-> <<>>]
     ELSE IF ~ValidEscapes(frag) THEN [err |-> "invalid URL escape", Fragment |-> <<>>]
     ELSE [err |-> "", Fragment |-> PercentDecode(frag)]

\* New(val) for a string val.
New(v) ==
  IF Len(v) = 0 \/ v = <<"#">> THEN PtrResult(<<>>, NoError)
  ELSE IF v[1] = "/" THEN parse(v)
  ELSE LET u == UrlParse(v)
       IN IF u.err # ""
            THEN PtrResult(<<>>, wrapError(u.err, ErrInvalidJSONPointer,
                                           "failed to parse URL: " \o u.err, <<u.err>>))
          ELSE parse(u.Fragment)

\* New(val) for a Pointer val: a copy.
NewFromPointer(p) == PtrResult([i \in 1..Len(p) |-> p[i]], NoError)

\* ------------------------------------------------------------------------
\* SpecSyntax: New, String, escapeToken and unescapeToken on bounded strings
\* ------------------------------------------------------------------------

\* The characters of the generated inputs: the separator, the escape
\* character and its two digits, the fragment mark, and a percent escape
\* that decodes to the separator (%2F).
Alphabet == {"/", "~", "0", "1", "#", "%", "2", "F"}

StringsUpTo(n) == UNION {[1..k -> Alphabet] : k \in 0..n}

\* URIs and the inputs of TestParse.
ExtraInputs ==
  { <<"h", "t", "t", "p", "s", ":", "/", "/", "x", "#">>,
    <<"h", "t", "t", "p", "s", ":", "/", "/", "x", "#", "/", "m", "~", "0", "n">>,
    <<":", "/", "/">>,
    <<"#", "7">>,
    <<"#", "/", "f", "o", "o", "/">>,
    <<"/", "a", "~", "1", "b">>,
    <<"#", "/", "c", "%", "2", "5", "d">> }

Inputs == StringsUpTo(MaxLen) \cup ExtraInputs

PendingPtr == [done |-> FALSE, toks |-> <<>>, err |-> NoError]

PendingStr == [done |-> FALSE, s |-> <<>>]

DonePtr(r) == [done |-> TRUE, toks |-> r.toks, err |-> r.err]

DoneStr(s) == [done |-> TRUE, s |-> s]

\* No Pointer value is held.
IdlePointer ==
  /\ heap = [id \in 1..4 |-> <<>>]
  /\ ptrP = [arr |-> 0, len |-> 0]
  /\ ptrQ = [arr |-> 0, len |-> 0]
  /\ ptrR = [arr |-> 0, len |-> 0]
  /\ call = [op |-> "none", recv |-> <<>>, elems |-> <<>>, res |-> <<>>,
             err |-> NoError, panic |-> FALSE]

\* No document is held and no Get or Set was called.
IdleTraverse ==
  /\ docRoot = [kind |-> "Invalid", type |-> "nil", s |-> <<>>, n |-> 0, b |-> FALSE,
                keys |-> <<>>, elems |-> <<>>]
  /\ sets = 0
  /\ last = [op |-> "none"]

InitSyntax ==
  /\ raw \in Inputs
  /\ ptr = PendingPtr
  /\ str = PendingStr
  /\ reparsed = PendingPtr
  /\ escaped = PendingStr
  /\ unescaped = PendingStr
  /\ IdlePointer
  /\ IdleTraverse

\* p, err := New(raw)
CallNew ==
  /\ ~ptr.done
  /\ ptr' = DonePtr(New(raw))
  /\ UNCHANGED <<raw, str, reparsed, escaped, unescaped, ptrVars, travVars>>

\* s := p.String()
CallString ==
  /\ ptr.done
  /\ IsNil(ptr.err)
  /\ ~str.done
  /\ str' = DoneStr(String(ptr.toks))
  /\ UNCHANGED <<raw, ptr, reparsed, escaped, unescaped, ptrVars, travVars>>

\* p2, err := New(s)
CallNewOnString ==
  /\ str.done
  /\ ~reparsed.done
  /\ reparsed' = DonePtr(New(str.s))
  /\ UNCHANGED <<raw, ptr, str, escaped, unescaped, ptrVars, travVars>>

\* e := escapeToken(raw)
CallEscapeToken ==
  /\ ~escaped.done
  /\ escaped' = DoneStr(escapeToken(raw))
  /\ UNCHANGED <<raw, ptr, str, reparsed, unescaped, ptrVars, travVars>>

\* u := unescapeToken(e)
CallUnescapeToken ==
  /\ escaped.done
  /\ ~unescaped.done
  /\ unescaped' = DoneStr(unescapeToken(escaped.s))
  /\ UNCHANGED <<raw, ptr, str, reparsed, escaped, ptrVars, travVars>>

NextSyntax ==
  \/ CallNew
  \/ CallString
  \/ CallNewOnString
  \/ CallEscapeToken
  \/ CallUnescapeToken

SpecSyntax == InitSyntax /\ [][NextSyntax]_vars

\* A bare ('/'-leading) or '#'-leading string.
BareOrFragment(s) == s # <<>> /\ s[1] \in {"/", "#"}

\* The number of occurrences of character c in s.
RECURSIVE Count(_, _)
Count(s, c) ==
  IF s = <<>> THEN 0 ELSE (IF s[1] = c THEN 1 ELSE 0) + Count(Tail(s), c)

\* C1: String is the exact inverse of New: unescapeToken(escapeToken(s)) = s
\* for every string s, and for every pointer p that New produced from a bare
\* or '#'-leading string, New(p.String()) succeeds with the tokens of p, so
\* that its String() is p.String() again.
C1_RoundTrip ==
  /\ unescaped.done => unescaped.s = raw
  /\ (reparsed.done /\ BareOrFragment(raw)) =>
       /\ IsNil(reparsed.err)
       /\ reparsed.toks = ptr.toks
       /\ String(reparsed.toks) = str.s

\* C1 witness: a '#'-leading input whose token holds a separator, parsed,
\* printed and parsed again, and a token that escaping changes, unescaped.
C1_Witness ==
  /\ reparsed.done
  /\ HasPrefix(raw, <<"#">>)
  /\ \E i \in 1..Len(ptr.toks) : Count(ptr.toks[i], "/") > 0
  /\ unescaped.done
  /\ escaped.s # raw

\* The pointer body of an input: a bare string itself, and the fragment the
\* URI layer hands back (percent-decoded) otherwise.
Body(s) == IF s[1] = "/" THEN s ELSE UrlParse(s).Fragment

IsInvalidPointer(err) == err.kind = "Error" /\ err.errType = ErrInvalidJSONPointer

\* C2: New on "" and "#" yields the zero-token pointer; on a bare or
\* '#'-leading string whose body is non-empty and does not start with '/' it
\* fails with InvalidPointer; otherwise the body minus its leading '/' is
\* split on '/' (as many tokens as the body has '/' characters) and each
\* piece has every ~1 replaced by '/' and then every ~0 by '~'.  A '#'-leading
\* string the URI layer rejects has no body and fails with InvalidPointer.
C2_NewCases ==
  (ptr.done /\ (raw = <<>> \/ BareOrFragment(raw))) =>
    IF raw = <<>> \/ raw = <<"#">>
      THEN IsNil(ptr.err) /\ ptr.toks = <<>>
    ELSE IF raw[1] = "#" /\ UrlParse(raw).err # ""
      THEN IsInvalidPointer(ptr.err)
    ELSE IF Body(raw)[1] # "/"
      THEN IsInvalidPointer(ptr.err)
    ELSE LET pieces == Split(Tail(Body(raw)), <<"/">>)
         IN /\ IsNil(ptr.err)
            /\ Len(ptr.toks) = Count(Body(raw), "/")
            /\ Len(ptr.toks) = Len(pieces)
            /\ \A i \in 1..Len(pieces) :
                 ptr.toks[i] = Replace(Replace(pieces[i], <<"~", "1">>, <<"/">>),
                                       <<"~", "0">>, <<"~">>)

\* C2 witness: "#/foo/" parsed into the two tokens "foo" and "".
C2_Witness ==
  /\ ptr.done
  /\ raw = <<"#", "/", "f", "o", "o", "/">>
  /\ ptr.toks = << <<"f", "o", "o">>, <<>> >>

\* ------------------------------------------------------------------------
\* Pointer is []string: slice headers over backing arrays
\* ------------------------------------------------------------------------

\* Arrays 1 and 2 back ptrP and ptrQ; 3 and 4 are where a call allocates.
ArrayIds == 1..4

\* A nil or zero-capacity slice has no backing array.
NilSlice == [arr |-> 0, len |-> 0]

Toks(h, sl) == IF sl.arr = 0 THEN <<>> ELSE SubSeq(h[sl.arr], 1, sl.len)

Cap(h, sl) == IF sl.arr = 0 THEN 0 ELSE Len(h[sl.arr])

\* An array no live slice of the call uses: the call's own slice is sl.
FreshId(sl) == IF sl.arr = 3 THEN 4 ELSE 3

\* make([]string, n): n empty strings.
make(h, id, n) == [h EXCEPT ![id] = [i \in 1..n |-> <<>>]]

\* copy(dst[:n], src): the first min(n, len(src)) elements.
copy(h, dst, n, src) ==
  [h EXCEPT ![dst.arr] =
     [i \in 1..Len(h[dst.arr]) |-> IF i <= n /\ i <= Len(src) THEN src[i] ELSE h[dst.arr][i]]]

\* A slice result of a call: the heap, the slice, the error, whether it panicked.
Out(h, sl, err) == [h |-> h, res |-> sl, err |-> err, panic |-> FALSE]

Panic(h) == [h |-> h, res |-> NilSlice, err |-> NoError, panic |-> TRUE]

\* append(sl, elems...): in place while the capacity lasts, else into a new
\* array of the runtime's next capacity (doubling below 256 elements).
append(h, sl, elems) ==
  LET n == sl.len + Len(elems)
      c == Cap(h, sl)
      id == FreshId(sl)
      newcap == IF n > 2 * c THEN n ELSE 2 * c
      all == Toks(h, sl) \o elems
  IN IF Len(elems) = 0 THEN [h |-> h, sl |-> sl]
     ELSE IF n <= c
       THEN [h |-> [h EXCEPT ![sl.arr] =
                      [i \in 1..c |-> IF i > sl.len /\ i <= n THEN elems[i - sl.len] ELSE @[i]]],
             sl |-> [arr |-> sl.arr, len |-> n]]
     ELSE [h |-> [h EXCEPT ![id] = [i \in 1..newcap |-> IF i <= n THEN all[i] ELSE <<>>]],
           sl |-> [arr |-> id, len |-> n]]

\* Pointer.Parent
Parent(h, recv) ==
  IF IsEmpty(Toks(h, recv)) THEN Out(h, NilSlice, NoError)
  ELSE LET newPtr == [arr |-> 3, len |-> recv.len]
           h1 == make(h, 3, recv.len)
       IN Out(copy(h1, newPtr, recv.len - 1, Toks(h, recv)), newPtr, NoError)

\* The loop of Pointer.Join over its arguments.  An argument is
\* [type |-> "Pointer", sl |-> slice], [type |-> "string", s |-> string] or
\* a value of another type.
RECURSIVE JoinLoop(_, _, _)
JoinLoop(h, newPtr, elems) ==
  IF elems = <<>> THEN Out(h, newPtr, NoError)
  ELSE LET e == elems[1]
       IN IF e.type = "Pointer"
            THEN LET a == append(h, newPtr, Toks(h, e.sl))
                 IN JoinLoop(a.h, a.sl, Tail(elems))
          ELSE IF e.type = "string"
            THEN LET elmPtr == New(e.s)
                     a == append(h, newPtr, elmPtr.toks)
                 IN IF ~IsNil(elmPtr.err) THEN Out(h, NilSlice, elmPtr.err)
                    ELSE JoinLoop(a.h, a.sl, Tail(elems))
          ELSE Out(h, NilSlice, plainError("invalid value for pointer: " \o e.type, <<e.type>>))

\* Join that appends to the receiver's own slice instead of a copy.
JoinNoCopy(h, recv, elems) == JoinLoop(h, recv, elems)

\* Pointer.Join
Join(h, recv, elems) ==
  LET newPtr == IF recv.len = 0 THEN NilSlice ELSE [arr |-> 3, len |-> recv.len]
      h1 == IF recv.len = 0 THEN h
            ELSE copy(make(h, 3, recv.len), newPtr, recv.len, Toks(h, recv))
  IN JoinLoop(h1, newPtr, elems)

\* The comparison loop of Pointer.RelativeTo: [mismatch, numCmnParts].
RECURSIVE CmnParts(_, _, _, _)
CmnParts(ptoks, otoks, i, numCmnParts) ==
  IF i > Len(otoks) THEN [mismatch |-> FALSE, numCmnParts |-> numCmnParts]
  ELSE IF ptoks[i] # otoks[i] THEN [mismatch |-> TRUE, numCmnParts |-> numCmnParts]
  ELSE CmnParts(ptoks, otoks, i + 1, i - 1)

\* Pointer.RelativeTo, after other became otherPtr.
RelativeToPointer(h, recv, otoks) ==
  LET ptoks == Toks(h, recv)
      c == CmnParts(ptoks, otoks, 1, 0)
      from == c.numCmnParts + 1
      cmnParts == Drop(ptoks, from)
      newPtr == IF Len(cmnParts) = 0 THEN NilSlice ELSE [arr |-> 3, len |-> Len(cmnParts)]
  IN IF Len(otoks) > Len(ptoks)
       THEN Out(h, NilSlice, plainError(Str(String(ptoks)) \o " does not start with "
                                          \o Str(String(otoks)),
                                        <<Str(String(ptoks)), Str(String(otoks))>>))
     ELSE IF c.mismatch
       THEN Out(h, recv, plainError(Str(String(ptoks)) \o " does not start with "
                                      \o Str(String(otoks)),
                                    <<Str(String(ptoks)), Str(String(otoks))>>))
     ELSE IF from > recv.len THEN Panic(h)
     ELSE IF Len(cmnParts) = 0 THEN Out(h, NilSlice, NoError)
     ELSE Out(copy(make(h, 3, Len(cmnParts)), newPtr, Len(cmnParts), cmnParts),
              newPtr, NoError)

\* Pointer.RelativeTo
RelativeTo(h, recv, other) ==
  IF other.type = "Pointer" THEN RelativeToPointer(h, recv, Toks(h, other.sl))
  ELSE IF other.type = "string"
    THEN LET otherPtr == New(other.s)
         IN IF ~IsNil(otherPtr.err) THEN Out(h, NilSlice, otherPtr.err)
            ELSE RelativeToPointer(h, recv, otherPtr.toks)
  ELSE Out(h, NilSlice, plainError("invalid value for pointer: " \o other.type, <<other.type>>))

\* ------------------------------------------------------------------------
\* SpecPointer: Parent, Join and RelativeTo on Pointers built by New, and a
\* caller that goes on to append to and store into the returned Pointer
\* ------------------------------------------------------------------------

Tok(c) == <<c>>

\* The strings ptrP and ptrQ are parsed from.
PointerInputs ==
  { <<>>,
    <<"/">>,
    <<"/", "a">>,
    <<"/", "b">>,
    <<"/", "a", "/", "b">> }

\* The strings passed to Join and RelativeTo.
PartStrings ==
  { <<>>,
    <<"/", "0">>,
    <<"/", "a">>,
    <<"#", "/", "a", "~", "1", "b">>,
    <<"#", "7">> }

\* What the caller stores into a returned Pointer.
StoredToks == {Tok("z")}

\* The arguments a call can be given: ptrQ, a string, or a value of another type.
ArgChoices ==
  {[type |-> "Pointer", s |-> <<>>]}
    \cup {[type |-> "string", s |-> x] : x \in PartStrings}
    \cup {[type |-> "int", s |-> <<>>]}

PointerArg == [type |-> "Pointer", s |-> <<>>]

StringArg(x) == [type |-> "string", s |-> x]

\* The argument lists Join is called with: none, the cases of TestJoin (one
\* string), a Pointer, mixed lists, a string that does not parse, and a
\* value of another type.
ArgLists ==
  { <<>>,
    <<StringArg(<<"/", "0">>)>>,
    <<StringArg(<<>>)>>,
    <<PointerArg>>,
    <<PointerArg, StringArg(<<"/", "0">>)>>,
    <<StringArg(<<"#", "/", "a", "~", "1", "b">>), PointerArg>>,
    <<StringArg(<<"/", "a">>), StringArg(<<"/", "0">>), PointerArg>>,
    <<StringArg(<<"#", "7">>)>>,
    <<PointerArg, StringArg(<<"#", "7">>)>>,
    <<[type |-> "int", s |-> <<>>]>> }

\* The argument as the callee receives it.
Arg(c) == [type |-> c.type, s |-> c.s, sl |-> ptrQ]

\* The argument as the call record keeps it: a Pointer by its tokens.
ArgSeen(c) ==
  [type |-> c.type, s |-> c.s, toks |-> IF c.type = "Pointer" THEN Toks(heap, ptrQ) ELSE <<>>]

\* The slice New returns for tokens, in array id.
SliceOf(toks, id) == IF Len(toks) = 0 THEN NilSlice ELSE [arr |-> id, len |-> Len(toks)]

NoCall ==
  [op |-> "none", recv |-> <<>>, elems |-> <<>>, res |-> <<>>, err |-> NoError, panic |-> FALSE]

\* No call of the syntax operations is under way.
IdleSyntax ==
  /\ raw = <<>>
  /\ ptr = PendingPtr
  /\ str = PendingStr
  /\ reparsed = PendingPtr
  /\ escaped = PendingStr
  /\ unescaped = PendingStr

InitPointer ==
  /\ \E s1 \in PointerInputs, s2 \in PointerInputs :
       /\ heap = [id \in ArrayIds |->
                    IF id = 1 THEN New(s1).toks ELSE IF id = 2 THEN New(s2).toks ELSE <<>>]
       /\ ptrP = SliceOf(New(s1).toks, 1)
       /\ ptrQ = SliceOf(New(s2).toks, 2)
  /\ ptrR = NilSlice
  /\ call = NoCall
  /\ IdleSyntax
  /\ IdleTraverse

\* The arrays only ptrR can reach are garbage once ptrR is assigned.
Release(h) == [h EXCEPT ![3] = <<>>, ![4] = <<>>]

\* The heap after a call returned sl: its array is kept as array 3.
Settle(h, sl) ==
  IF sl.arr = 4 THEN [h EXCEPT ![3] = h[4], ![4] = <<>>]
  ELSE IF sl.arr = 3 THEN [h EXCEPT ![4] = <<>>]
  ELSE Release(h)

Settled(sl) == IF sl.arr = 4 THEN [arr |-> 3, len |-> sl.len] ELSE sl

\* ptrR, err = <call>: the outcome `out` of a call on the receiver ptrP.
Return(op, elems, out) ==
  /\ call' = [op |-> op, recv |-> Toks(heap, ptrP), elems |-> elems,
              res |-> Toks(out.h, out.res), err |-> out.err, panic |-> out.panic]
  /\ IF out.panic
       THEN UNCHANGED <<heap, ptrR>>
       ELSE /\ heap' = Settle(out.h, out.res)
            /\ ptrR' = Settled(out.res)
  /\ UNCHANGED <<ptrP, ptrQ, synVars, travVars>>

\* ptrR = ptrP.Parent()
CallParent == Return("Parent", <<>>, Parent(Release(heap), ptrP))

\* ptrR, err = ptrP.Join(elems...)
CallJoin ==
  \E cs \in ArgLists :
    Return("Join", [i \in 1..Len(cs) |-> ArgSeen(cs[i])],
           Join(Release(heap), ptrP, [i \in 1..Len(cs) |-> Arg(cs[i])]))

\* ptrR, err = ptrP.RelativeTo(other)
CallRelativeTo ==
  \E c \in ArgChoices :
    Return("RelativeTo", <<ArgSeen(c)>>, RelativeTo(Release(heap), ptrP, Arg(c)))

\* The caller: ptrR = append(ptrR, tok)
CallerAppends ==
  \E tok \in StoredToks :
    /\ call.op # "none"
    /\ ~call.panic
    /\ ptrR.len < MaxToks
    /\ LET a == append(heap, ptrR, <<tok>>)
       IN /\ heap' = Settle(a.h, a.sl)
          /\ ptrR' = Settled(a.sl)
    /\ UNCHANGED <<ptrP, ptrQ, call, synVars, travVars>>

\* The caller: ptrR[i] = tok
CallerStores ==
  \E i \in 1..ptrR.len, tok \in StoredToks :
    /\ call.op # "none"
    /\ ~call.panic
    /\ heap' = [heap EXCEPT ![ptrR.arr][i] = tok]
    /\ UNCHANGED <<ptrP, ptrQ, ptrR, call, synVars, travVars>>

NextPointer ==
  \/ CallParent
  \/ CallJoin
  \/ CallRelativeTo
  \/ CallerAppends
  \/ CallerStores

SpecPointer == InitPointer /\ [][NextPointer]_vars

\* The tokens an argument of Join or RelativeTo stands for.
ArgToks(e) == IF e.type = "Pointer" THEN e.toks ELSE New(e.s).toks

\* Whether an argument is a Pointer or a string that parses.
ArgParses(e) == e.type = "Pointer" \/ (e.type = "string" /\ IsNil(New(e.s).err))

RECURSIVE AllArgToks(_)
AllArgToks(elems) ==
  IF elems = <<>> THEN <<>> ELSE ArgToks(elems[1]) \o AllArgToks(Tail(elems))

\* C3: p.Parent() has exactly the first n-1 tokens of a pointer p of n >= 1
\* tokens, and is the root pointer, without error, for the root pointer.
C3_ParentDropsLast ==
  call.op = "Parent" =>
    /\ ~call.panic
    /\ IsNil(call.err)
    /\ call.res = IF call.recv = <<>> THEN <<>>
                  ELSE SubSeq(call.recv, 1, Len(call.recv) - 1)

\* A prefix q does not match p: it is longer, or differs at some position.
PrefixFails(pt, qt) ==
  \/ Len(qt) > Len(pt)
  \/ \E i \in 1..Len(qt) : i <= Len(pt) /\ qt[i] # pt[i]

\* C4: p.RelativeTo(q) fails exactly when q has more tokens than p or a
\* token of q differs from p's at the same position; otherwise it returns
\* the tokens of p after the first len(q), so p.RelativeTo(root) is p and
\* p.RelativeTo(p) is the root pointer.
C4_RelativeTo ==
  (call.op = "RelativeTo" /\ ArgParses(call.elems[1])) =>
    LET qt == ArgToks(call.elems[1])
    IN /\ ~call.panic
       /\ PrefixFails(call.recv, qt) <=> ~IsNil(call.err)
       /\ ~PrefixFails(call.recv, qt) => call.res = Drop(call.recv, Len(qt))

\* C5: when every part parses, p.Join(parts...) returns the tokens of p
\* followed by the tokens of each part in argument order, and p keeps its
\* tokens, and so its String(), from then on, whatever the caller appends to
\* or stores into the returned pointer.
C5_Join ==
  (call.op = "Join" /\ \A i \in 1..Len(call.elems) : ArgParses(call.elems[i])) =>
    /\ ~call.panic
    /\ IsNil(call.err)
    /\ call.res = call.recv \o AllArgToks(call.elems)
    /\ Toks(heap, ptrP) = call.recv
    /\ String(Toks(heap, ptrP)) = String(call.recv)

\* C5 witness: a Join of three parts onto a non-root pointer, whose result
\* the caller has changed since.
C5_Witness ==
  /\ call.op = "Join"
  /\ Len(call.elems) = 3
  /\ IsNil(call.err)
  /\ call.recv # <<>>
  /\ Toks(heap, ptrR) # call.res

\* ------------------------------------------------------------------------
\* strconv, as getValue and setValue use it
\* ------------------------------------------------------------------------

AllDigits(s) == s # <<>> /\ \A i \in 1..Len(s) : IsDigit(s[i])

\* The value of a string of decimal digits.
RECURSIVE DigitsValue(_)
DigitsValue(s) ==
  IF s = <<>> THEN 0
  ELSE 10 * DigitsValue(SubSeq(s, 1, Len(s) - 1)) + (PosIn(Digits, s[Len(s)]) - 1)

\* strconv.ParseInt(s, 10, 64) and strconv.Atoi(s): an optional sign and
\* decimal digits.  [ok, i]
ParseInt(s) ==
  LET signed == s # <<>> /\ s[1] \in {"+", "-"}
      body == IF signed THEN Tail(s) ELSE s
  IN IF ~AllDigits(body) THEN [ok |-> FALSE, i |-> 0]
     ELSE [ok |-> TRUE, i |-> IF signed /\ s[1] = "-" THEN 0 - DigitsValue(body)
                              ELSE DigitsValue(body)]

Atoi(s) == ParseInt(s)

\* strconv.ParseUint(s, 10, 64): decimal digits, no sign.
ParseUint(s) ==
  IF ~AllDigits(s) THEN [ok |-> FALSE, i |-> 0] ELSE [ok |-> TRUE, i |-> DigitsValue(s)]

\* strconv.ParseBool
ParseBool(s) ==
  IF Str(s) \in {"1", "t", "T", "TRUE", "true", "True"} THEN [ok |-> TRUE, b |-> TRUE]
  ELSE IF Str(s) \in {"0", "f", "F", "FALSE", "false", "False"} THEN [ok |-> TRUE, b |-> FALSE]
  ELSE [ok |-> FALSE, b |-> FALSE]

\* strconv.FormatUint(n, 10)
RECURSIVE FormatUint(_)
FormatUint(n) ==
  IF n < 10 THEN <<Digits[n + 1]>> ELSE FormatUint(n \div 10) \o <<Digits[(n % 10) + 1]>>

\* strconv.FormatInt(n, 10)
FormatInt(n) == IF n < 0 THEN <<"-">> \o FormatUint(0 - n) ELSE FormatUint(n)

\* A float64 is modelled by twice its value: the model's floats are the
\* multiples of one half.
\* strconv.FormatFloat(f, 'f', -1, 64)
FormatFloat(h) ==
  LET m == IF h < 0 THEN 0 - h ELSE h
  IN (IF h < 0 THEN <<"-">> ELSE <<>>) \o FormatUint(m \div 2)
       \o (IF m % 2 = 1 THEN <<".", "5">> ELSE <<>>)

\* int64(f): truncation toward zero.
TruncFloat(h) == IF h < 0 THEN 0 - ((0 - h) \div 2) ELSE h \div 2

\* strconv.ParseFloat(s, 64) on decimal text: an optional sign, digits, and
\* an optional fraction that is empty, "0" or "5".  Exponents, hexadecimal
\* floats, "inf" and "nan" are not among the strings of the model.
ParseFloat(s) ==
  LET signed == s # <<>> /\ s[1] \in {"+", "-"}
      body == IF signed THEN Tail(s) ELSE s
      dot == Index(body, <<".">>)
      int == IF dot = 0 THEN body ELSE SubSeq(body, 1, dot - 1)
      frac == IF dot = 0 THEN <<>> ELSE Drop(body, dot)
      m == 2 * DigitsValue(int) + (IF frac = <<"5">> THEN 1 ELSE 0)
  IN IF (int = <<>> /\ frac = <<>>) \/ (int # <<>> /\ ~AllDigits(int))
          \/ frac \notin {<<>>, <<"0">>, <<"5">>}
       THEN [ok |-> FALSE, h |-> 0]
     ELSE [ok |-> TRUE, h |-> IF signed /\ s[1] = "-" THEN 0 - m ELSE m]

\* ------------------------------------------------------------------------
\* Go values as reflect sees them
\* ------------------------------------------------------------------------

\* A Go value: its reflect.Kind, its type, and its content.  s holds a
\* string, n an integer (a float64 by twice its value), b a bool; keys and
\* elems hold a map's keys and values, elems a slice's elements, and elems
\* the one value a non-nil pointer or interface holds.
Node(kind, type, s, n, b, keys, elems) ==
  [kind |-> kind, type |-> type, s |-> s, n |-> n, b |-> b, keys |-> keys, elems |-> elems]

\* The nil interface value: reflect.ValueOf(nil) is the zero Value.
NilDoc == Node("Invalid", "nil", <<>>, 0, FALSE, <<>>, <<>>)

StringV(s) == Node("String", "string", s, 0, FALSE, <<>>, <<>>)

BoolV(b) == Node("Bool", "bool", <<>>, 0, b, <<>>, <<>>)

IntV(n) == Node("Int", "int", <<>>, n, FALSE, <<>>, <<>>)

Int8V(n) == Node("Int8", "int8", <<>>, n, FALSE, <<>>, <<>>)

Uint8V(n) == Node("Uint8", "uint8", <<>>, n, FALSE, <<>>, <<>>)

\* float64(h / 2)
Float64V(h) == Node("Float64", "float64", <<>>, h, FALSE, <<>>, <<>>)

SliceV(type, elems) == Node("Slice", type, <<>>, 0, FALSE, <<>>, elems)

MapV(type, keys, elems) == Node("Map", type, <<>>, 0, FALSE, keys, elems)

PtrV(type, elem) == Node("Ptr", type, <<>>, 0, FALSE, <<>>, <<elem>>)

\* An interface{} element holding elem, and the nil interface{} element.
IfaceV(elem) == Node("Interface", "interface {}", <<>>, 0, FALSE, <<>>, <<elem>>)

NilIfaceV == Node("Interface", "interface {}", <<>>, 0, FALSE, <<>>, <<>>)

IntKinds == {"Int", "Int8"}

UintKinds == {"Uint8"}

FloatKinds == {"Float64"}

PrimitiveKinds == {"Bool", "String"} \cup IntKinds \cup UintKinds \cup FloatKinds

\* A reflect.Value: the value it holds, whether it is addressable, and the
\* steps that lead to it from the document (where a store through it lands).
Value(node, addr, path) == [valid |-> TRUE, node |-> node, addr |-> addr, path |-> path]

ZeroValue == [valid |-> FALSE, node |-> NilDoc, addr |-> FALSE, path |-> <<>>]

\* reflect.ValueOf
ValueOf(x) == IF x.kind = "Invalid" THEN ZeroValue ELSE Value(x, FALSE, <<>>)

Step(op, i, key) == [op |-> op, i |-> i, key |-> key]

\* Value.Elem of a pointer or an interface: the pointee is addressable, the
\* content of an interface is not.
Elem(v) ==
  IF v.node.elems = <<>> THEN ZeroValue
  ELSE Value(v.node.elems[1], v.node.kind = "Ptr", v.path \o <<Step("Elem", 0, <<>>)>>)

\* Value.Index of a slice: always addressable.
ValueIndex(v, i) == Value(v.node.elems[i + 1], TRUE, v.path \o <<Step("Index", i, <<>>)>>)

\* Value.MapIndex: a copy of the element, not addressable; the zero Value
\* for a missing key.
MapIndex(v, key) ==
  IF PosIn(v.node.keys, key) = 0 THEN ZeroValue
  ELSE Value(v.node.elems[PosIn(v.node.keys, key)], FALSE,
             v.path \o <<Step("MapIndex", 0, key)>>)

\* Value.CanSet (the model has no unexported struct field)
CanSet(v) == v.valid /\ v.addr

\* Value.Interface: the value held; of an interface, what it holds.
Interface(v) ==
  IF v.node.kind = "Interface"
    THEN (IF v.node.elems = <<>> THEN NilDoc ELSE v.node.elems[1])
  ELSE v.node

\* The element a step selects in a node.
Child(node, st) ==
  IF st.op = "Elem" THEN 1
  ELSE IF st.op = "Index" THEN st.i + 1
  ELSE PosIn(node.keys, st.key)

\* The value found in doc by following path.
RECURSIVE NodeAt(_, _)
NodeAt(node, path) ==
  IF path = <<>> THEN node ELSE NodeAt(node.elems[Child(node, path[1])], Tail(path))

\* doc with the value at path replaced: what a store through a Value does
\* to the memory the document shares with it.
RECURSIVE WriteAt(_, _, _)
WriteAt(node, path, new) ==
  IF path = <<>> THEN new
  ELSE [node EXCEPT !.elems[Child(node, path[1])] = WriteAt(@, Tail(path), new)]

\* ------------------------------------------------------------------------
\* pointer.go: getValue, Get
\* ------------------------------------------------------------------------

GetError(msg, args) == newError(ErrGet, msg, args)

\* What one getValue call returns: the Value and the error, or a panic; at
\* records the kind and length of the value that decided it.
Got(val, kind, len) ==
  [val |-> val, err |-> NoError, panic |-> FALSE, at |-> [kind |-> kind, len |-> len]]

GetFail(err, kind, len) ==
  [val |-> ZeroValue, err |-> err, panic |-> FALSE, at |-> [kind |-> kind, len |-> len]]

GetPanic(kind, len) ==
  [val |-> ZeroValue, err |-> NoError, panic |-> TRUE, at |-> [kind |-> kind, len |-> len]]

\* getValue for a slice: any token strconv.Atoi accepts is used as the index.
getValueSlice(doc, key) ==
  LET a == Atoi(key)
      n == Len(doc.node.elems)
  IN IF ~a.ok
       THEN GetFail(GetError("invalid array index: " \o Str(key), <<Str(key)>>), "Slice", n)
     ELSE IF a.i >= n
       THEN GetFail(GetError("index " \o Str(FormatInt(a.i)) \o " exceeds array length of "
                               \o Str(FormatInt(n)),
                             <<Str(FormatInt(a.i)), Str(FormatInt(n))>>), "Slice", n)
     ELSE IF a.i < 0 THEN GetPanic("Slice", n)
     ELSE Got(ValueIndex(doc, a.i), "Slice", n)

RECURSIVE getValue(_, _)
getValue(doc, key) ==
  IF ~doc.valid
    THEN GetFail(GetError("document value is invalid", <<>>), "Invalid", 0)
  ELSE IF doc.node.kind \in {"Ptr", "Interface"}
    THEN IF doc.node.elems = <<>>
           THEN GetFail(GetError("document value is nil", <<>>), doc.node.kind, 0)
         ELSE getValue(Elem(doc), key)
  ELSE IF doc.node.kind = "Slice" THEN getValueSlice(doc, key)
  ELSE IF doc.node.kind = "Map"
    THEN IF ~MapIndex(doc, key).valid
           THEN GetFail(GetError("map has no key '" \o Str(key) \o "'", <<Str(key)>>),
                        "Map", Len(doc.node.keys))
         ELSE Got(MapIndex(doc, key), "Map", Len(doc.node.keys))
  ELSE IF doc.node.kind \in PrimitiveKinds
    THEN GetFail(GetError("primitive value has no fields", <<>>), doc.node.kind, 0)
  ELSE GetFail(GetError("unsupported document type " \o doc.node.kind, <<doc.node.kind>>),
               doc.node.kind, 0)

\* The loop of Get and Set: getValue token by token, stopping at the first
\* error.  steps lists what decided each token that was tried.
RECURSIVE Navigate(_, _, _)
Navigate(v, toks, steps) ==
  IF toks = <<>> THEN [val |-> v, err |-> NoError, panic |-> FALSE, steps |-> steps]
  ELSE LET g == getValue(v, toks[1])
       IN IF g.panic \/ ~IsNil(g.err)
            THEN [val |-> ZeroValue, err |-> g.err, panic |-> g.panic,
                  steps |-> Append(steps, g.at)]
          ELSE Navigate(g.val, Tail(toks), Append(steps, g.at))

\* Pointer.Get: what it returns or whether it panicked, with the Value the
\* loop ended at.  CanInterface panics on the zero Value and is true of
\* every other Value of the model (none comes from an unexported field).
Get(toks, doc) ==
  LET nav == Navigate(ValueOf(doc), toks, <<>>)
  IN IF nav.panic \/ ~IsNil(nav.err)
       THEN [out |-> NilDoc, err |-> nav.err, panic |-> nav.panic, steps |-> nav.steps,
             slot |-> ZeroValue]
     ELSE IF ~nav.val.valid
       THEN [out |-> NilDoc, err |-> NoError, panic |-> TRUE, steps |-> nav.steps,
             slot |-> ZeroValue]
     ELSE [out |-> Interface(nav.val), err |-> NoError, panic |-> FALSE, steps |-> nav.steps,
           slot |-> nav.val]

\* ------------------------------------------------------------------------
\* pointer.go: Set, setValue
\* ------------------------------------------------------------------------

SetError(msg, args) == newError(ErrSet, msg, args)

\* indirect: through pointers and interfaces to what they hold; the zero
\* Value for a nil one.
RECURSIVE indirect(_)
indirect(val) ==
  IF val.valid /\ val.node.kind \in {"Ptr", "Interface"} THEN indirect(Elem(val)) ELSE val

\* reflect.Value.Kind as it prints
KindString(v) ==
  IF ~v.valid THEN "invalid"
  ELSE CASE v.node.kind = "String" -> "string"
         [] v.node.kind = "Bool" -> "bool"
         [] v.node.kind = "Int" -> "int"
         [] v.node.kind = "Int8" -> "int8"
         [] v.node.kind = "Uint8" -> "uint8"
         [] v.node.kind = "Float64" -> "float64"
         [] v.node.kind = "Slice" -> "slice"
         [] v.node.kind = "Map" -> "map"
         [] v.node.kind = "Ptr" -> "ptr"
         [] OTHER -> "interface"

\* An integer stored in a slot of the given kind: SetInt and SetUint keep
\* the low bits of the slot's width.
Narrow(kind, x) ==
  CASE kind = "Int8" -> ((x + 128) % 256) - 128
    [] kind = "Uint8" -> x % 256
    [] OTHER -> x

\* uint64 of a float64: the truncated value when it is non-negative; for a
\* negative one the result depends on the implementation (the wrapped value
\* or zero).
Uint64OfFloat(h, impl) ==
  IF h >= 0 \/ impl = "wrap" THEN TruncFloat(h) ELSE 0

\* What one setValue call does: the error it returns and, when it stores,
\* the value the slot holds afterwards.
Stored(node) == [err |-> NoError, set |-> TRUE, new |-> node]

SetFail(err) == [err |-> err, set |-> FALSE, new |-> NilDoc]

TypeMismatch(src, doc) ==
  SetFail(SetError("type mismatch (" \o KindString(src) \o " -> " \o KindString(doc) \o ")",
                   <<KindString(src), KindString(doc)>>))

ConversionFailed(target) ==
  SetFail(SetError("conversion failed (string -> " \o target \o ")", <<>>))

SrcKind(src) == IF src.valid THEN src.node.kind ELSE "Invalid"

setValueString(doc, src) ==
  LET k == SrcKind(src)
  IN IF k = "String" THEN Stored([doc.node EXCEPT !.s = src.node.s])
     ELSE IF k \in IntKinds THEN Stored([doc.node EXCEPT !.s = FormatInt(src.node.n)])
     ELSE IF k \in UintKinds THEN Stored([doc.node EXCEPT !.s = FormatUint(src.node.n)])
     ELSE IF k \in FloatKinds THEN Stored([doc.node EXCEPT !.s = FormatFloat(src.node.n)])
     ELSE IF k = "Bool"
       THEN Stored([doc.node EXCEPT !.s = IF src.node.b THEN <<"t", "r", "u", "e">>
                                          ELSE <<"f", "a", "l", "s", "e">>])
     ELSE TypeMismatch(src, doc)

setValueInt(doc, src) ==
  LET k == SrcKind(src)
      SetInt(x) == Stored([doc.node EXCEPT !.n = Narrow(doc.node.kind, x)])
  IN IF k \in IntKinds \cup UintKinds THEN SetInt(src.node.n)
     ELSE IF k \in FloatKinds THEN SetInt(TruncFloat(src.node.n))
     ELSE IF k = "Bool" THEN SetInt(IF src.node.b THEN 1 ELSE 0)
     ELSE IF k = "String"
       THEN IF ~ParseInt(src.node.s).ok THEN ConversionFailed("int")
            ELSE SetInt(ParseInt(src.node.s).i)
     ELSE TypeMismatch(src, doc)

setValueUint(doc, src, impl) ==
  LET k == SrcKind(src)
      SetUint(x) == Stored([doc.node EXCEPT !.n = Narrow(doc.node.kind, x)])
  IN IF k \in IntKinds \cup UintKinds THEN SetUint(src.node.n)
     ELSE IF k \in FloatKinds THEN SetUint(Uint64OfFloat(src.node.n, impl))
     ELSE IF k = "Bool" THEN SetUint(IF src.node.b THEN 1 ELSE 0)
     ELSE IF k = "String"
       THEN IF ~ParseUint(src.node.s).ok THEN ConversionFailed("uint")
            ELSE SetUint(ParseUint(src.node.s).i)
     ELSE TypeMismatch(src, doc)

setValueFloat(doc, src) ==
  LET k == SrcKind(src)
      SetFloat(h) == Stored([doc.node EXCEPT !.n = h])
  IN IF k \in IntKinds \cup UintKinds THEN SetFloat(2 * src.node.n)
     ELSE IF k \in FloatKinds THEN SetFloat(src.node.n)
     ELSE IF k = "Bool" THEN SetFloat(IF src.node.b THEN 2 ELSE 0)
     ELSE IF k = "String"
       THEN IF ~ParseFloat(src.node.s).ok THEN ConversionFailed("float")
            ELSE SetFloat(ParseFloat(src.node.s).h)
     ELSE TypeMismatch(src, doc)

setValueBool(doc, src) ==
  LET k == SrcKind(src)
      SetBool(b) == Stored([doc.node EXCEPT !.b = b])
  IN IF k \in IntKinds \cup UintKinds \cup FloatKinds THEN SetBool(src.node.n # 0)
     ELSE IF k = "Bool" THEN SetBool(src.node.b)
     ELSE IF k = "String"
       THEN IF ~ParseBool(src.node.s).ok THEN ConversionFailed("bool")
            ELSE SetBool(ParseBool(src.node.s).b)
     ELSE TypeMismatch(src, doc)

\* setValue(doc, value); impl is the implementation's choice where Go leaves
\* a conversion to it.
setValue(doc0, value, impl) ==
  LET doc == IF doc0.valid /\ doc0.node.kind = "Interface" THEN Elem(doc0) ELSE doc0
      srcVal == ValueOf(value)
      indSrcVal == indirect(srcVal)
  IN IF ~doc.valid
       THEN SetFail(plainError("cannot set value on invalid document", <<>>))
     ELSE IF ~CanSet(doc)
       THEN SetFail(plainError("cannot set value on unaddressable document or unexported field",
                               <<>>))
     ELSE IF ~srcVal.valid
       THEN SetFail(plainError("cannot set value on invalid value", <<>>))
     ELSE IF doc.node.kind \in {"Ptr", "Slice", "Map"}
       THEN IF doc.node.type # srcVal.node.type
              THEN SetFail(SetError("cannot set document value of type " \o doc.node.type
                                      \o " to value of type " \o srcVal.node.type,
                                    <<doc.node.type, srcVal.node.type>>))
            ELSE Stored(srcVal.node)
     ELSE IF doc.node.kind = "String" THEN setValueString(doc, indSrcVal)
     ELSE IF doc.node.kind \in IntKinds THEN setValueInt(doc, indSrcVal)
     ELSE IF doc.node.kind \in UintKinds THEN setValueUint(doc, indSrcVal, impl)
     ELSE IF doc.node.kind \in FloatKinds THEN setValueFloat(doc, indSrcVal)
     ELSE IF doc.node.kind = "Bool" THEN setValueBool(doc, indSrcVal)
     ELSE SetFail(SetError("unsupported type (" \o KindString(doc) \o ")", <<KindString(doc)>>))

\* Set that stores into a copy of the slot: the document keeps its value.
SetIntoCopy(toks, doc, value, impl) ==
  LET nav == Navigate(ValueOf(doc), toks, <<>>)
      sv == setValue(nav.val, value, impl)
  IN IF nav.panic \/ ~IsNil(nav.err)
       THEN [err |-> nav.err, panic |-> nav.panic, doc |-> doc, steps |-> nav.steps,
             slot |-> ZeroValue, set |-> FALSE, new |-> NilDoc]
     ELSE [err |-> sv.err, panic |-> FALSE, doc |-> doc,
           steps |-> nav.steps, slot |-> nav.val, set |-> sv.set, new |-> sv.new]

\* Pointer.Set: the error, whether it panicked, the document afterwards, the
\* slot navigation ended at and the value stored in it.
Set(toks, doc, value, impl) ==
  LET nav == Navigate(ValueOf(doc), toks, <<>>)
      sv == setValue(nav.val, value, impl)
  IN IF nav.panic \/ ~IsNil(nav.err)
       THEN [err |-> nav.err, panic |-> nav.panic, doc |-> doc, steps |-> nav.steps,
             slot |-> ZeroValue, set |-> FALSE, new |-> NilDoc]
     ELSE [err |-> sv.err, panic |-> FALSE,
           doc |-> IF sv.set THEN WriteAt(doc, nav.val.path, sv.new) ELSE doc,
           steps |-> nav.steps, slot |-> nav.val, set |-> sv.set, new |-> sv.new]

\* ------------------------------------------------------------------------
\* SpecTraverse: Get and Set calls on a document
\* ------------------------------------------------------------------------

\* The most Set calls made on one document.
MaxSets == 1

\* Two members of the document of TestEval and a null member:
\* {"foo": ["bar", "baz"], "n": null, "": 0}, as encoding/json decodes it.
JsonDoc ==
  MapV("map[string]interface {}",
       <<<<"f", "o", "o">>, <<"n">>, <<>>>>,
       <<IfaceV(SliceV("[]interface {}", <<IfaceV(StringV(<<"b", "a", "r">>)), IfaceV(StringV(<<"b", "a", "z">>))>>)),
         NilIfaceV,
         IfaceV(Float64V(0))>>)

\* The documents Get and Set are called on: the decoded JSON document, nil,
\* a scalar, a typed map, a pointer to a slice, typed slices of every scalar
\* kind, a slice of slices and a slice of interfaces.
Documents ==
  { JsonDoc,
    NilDoc,
    StringV(<<"x">>),
    MapV("map[string]string", <<<<"k">>>>, <<StringV(<<"v">>)>>),
    PtrV("*[]bool", SliceV("[]bool", <<BoolV(TRUE)>>)),
    SliceV("[]string", <<StringV(<<"x">>)>>),
    SliceV("[]int8", <<Int8V(5)>>),
    SliceV("[]int", <<IntV(5)>>),
    SliceV("[]uint8", <<Uint8V(5)>>),
    SliceV("[]float64", <<Float64V(5)>>),
    SliceV("[][]string", <<SliceV("[]string", <<StringV(<<"x">>)>>)>>),
    SliceV("[]interface {}",
           <<IfaceV(StringV(<<"x">>)), IfaceV(SliceV("[]string", <<StringV(<<"x">>)>>))>>) }

\* The strings the pointers of the calls are parsed from: the empty forms,
\* the cases of TestEval, and paths into the typed documents (index 0 also
\* written "00", which strconv.Atoi reads as 0).
EmptyForms == { <<>>, <<"#">>, <<"h", "t", "t", "p", "s", ":", "/", "/", "x", "#">> }

TraverseInputs ==
  EmptyForms \cup
  { <<"/", "f", "o", "o">>,
    <<"/", "f", "o", "o", "/", "0">>,
    <<"/", "f", "o", "o", "/", "3">>,
    <<"/", "f", "o", "o", "/", "b", "a", "r">>,
    <<"/", "f", "o", "o", "/", "-", "1">>,
    <<"/", "b", "a", "r", "/", "b", "a", "z">>,
    <<"/", "n", "/", "x">>,
    <<"/", "f", "o", "o", "/", "0", "/", "x">>,
    <<"/", "0">>,
    <<"/", "0", "0">>,
    <<"/", "1", "/", "0">>,
    <<"/", "k">> }

\* The values handed to Set: nil, strings, integers, a float64 of either
\* sign, a boolean, a pointer and a slice.
SetValues ==
  { NilDoc,
    StringV(<<"y">>), StringV(<<"4", "2">>), StringV(<<"t", "r", "u", "e">>),
    IntV(42), IntV(300), IntV(-1),
    Float64V(5), Float64V(-5),
    BoolV(TRUE),
    PtrV("*int", IntV(7)),
    SliceV("[]string", <<StringV(<<"z">>)>>) }

\* The outcomes of the conversion Go leaves to the implementation, for a Set
\* of value: a choice only for a negative float64.
ConversionsOf(value) ==
  IF value.kind = "Float64" /\ value.n < 0 THEN {"wrap", "saturate"} ELSE {"wrap"}

InitTraverse ==
  /\ docRoot \in Documents
  /\ sets = 0
  /\ last = [op |-> "none"]
  /\ IdleSyntax
  /\ IdlePointer

\* A panic ends the program.
Running == IF last.op = "none" THEN TRUE ELSE ~last.panic

\* The pointers of the calls: p, err := New(s) with a nil err.
Pointers ==
  { in \in { [raw |-> s, p |-> New(s)] : s \in TraverseInputs } : IsNil(in.p.err) }

\* out, err := p.Get(docRoot)
CallGet ==
  \E in \in Pointers :
    LET g == Get(in.p.toks, docRoot)
    IN /\ Running
       /\ last' = [op |-> "Get", raw |-> in.raw, toks |-> in.p.toks, before |-> docRoot, value |-> NilDoc,
                   out |-> g.out, err |-> g.err, panic |-> g.panic, steps |-> g.steps,
                   slot |-> g.slot, set |-> FALSE, new |-> NilDoc]
       /\ UNCHANGED <<docRoot, sets, synVars, ptrVars>>

\* err := p.Set(docRoot, value)
CallSet ==
  \E in \in Pointers, value \in SetValues :
    \E impl \in ConversionsOf(value) :
      LET r == Set(in.p.toks, docRoot, value, impl)
      IN /\ Running
         /\ sets < MaxSets
         /\ last' = [op |-> "Set", raw |-> in.raw, toks |-> in.p.toks, before |-> docRoot, value |-> value,
                     out |-> NilDoc, err |-> r.err, panic |-> r.panic, steps |-> r.steps,
                     slot |-> r.slot, set |-> r.set, new |-> r.new]
         /\ docRoot' = r.doc
         /\ sets' = sets + 1
         /\ UNCHANGED <<synVars, ptrVars>>

NextTraverse ==
  \/ CallGet
  \/ CallSet

SpecTraverse == InitTraverse /\ [][NextTraverse]_vars

\* `last` is a call of Get or Set.
Called(ops) == IF last.op = "none" THEN FALSE ELSE last.op \in ops

\* The error is a *Error of type Get.
IsGetError(err) == err.kind = "Error" /\ err.errType = ErrGet

\* The error is a *Error of type Set.
IsSetError(err) == err.kind = "Error" /\ err.errType = ErrSet

\* Navigation failed at token i of the last call, with an error.
FailedAt(i) == i = Len(last.steps) /\ ~last.panic /\ IsGetError(last.err)

\* Navigation passed token i of the last call.
Passed(i) == ~last.panic /\ (i < Len(last.steps) \/ ~IsGetError(last.err))

\* Token t written as a non-negative base-10 integer.
IsIndex(t) == AllDigits(t)

\* The three outcomes of token i met at a sequence.
SequenceStep(i) ==
  LET t == last.toks[i]
      n == last.steps[i].len
  IN IF ~IsIndex(t)
       THEN FailedAt(i) /\ last.err.msg = "invalid array index: " \o Str(t)
     ELSE IF DigitsValue(t) >= n
       THEN FailedAt(i) /\ last.err.args = <<Str(FormatInt(DigitsValue(t))), Str(FormatInt(n))>>
     ELSE /\ Passed(i)
          /\ i = Len(last.toks) =>
               last.slot.path[Len(last.slot.path)] = Step("Index", DigitsValue(t), <<>>)

\* C6: a token met at a sequence of length n either is not a non-negative
\* base-10 integer and the call fails with the Get error 'invalid array
\* index', or parses to i >= n and the call fails with a Get error reporting
\* i and n, or the call descends to the element at index i.
C6_SequenceStep ==
  Called({"Get", "Set"}) =>
    \A i \in 1..Len(last.steps) : last.steps[i].kind = "Slice" => SequenceStep(i)

\* C7: the empty forms parse to the zero-token pointer, and Get on it returns
\* the document root unchanged, without error, for every document (nil
\* included).
C7_EmptyPointerGet ==
  (Called({"Get"}) /\ last.raw \in EmptyForms) =>
    /\ last.toks = <<>>
    /\ ~last.panic
    /\ IsNil(last.err)
    /\ last.out = last.before

\* The kinds of step at which a token cannot be resolved: a map without the
\* key, a scalar, a nil value.
Unresolvable == {"Map", "Ptr", "Interface", "Invalid"} \cup PrimitiveKinds

\* The value the document holds at the end of a path, as Get hands it out.
ValueAtPath(doc, path) == Interface(Value(NodeAt(doc, path), FALSE, <<>>))

\* C8: Get stops at the first token that cannot be resolved (missing key,
\* descent into a scalar or into a nil value) with a Get error naming that
\* token, whatever tokens follow; if every token resolves it returns the value
\* at the end of the path.
C8_GetStopsAtFirstFailure ==
  Called({"Get"}) =>
    /\ ~last.panic
    /\ IF IsNil(last.err)
         THEN /\ Len(last.steps) = Len(last.toks)
              /\ last.slot.valid
              /\ last.out = ValueAtPath(last.before, last.slot.path)
         ELSE LET k == Len(last.steps)
              IN /\ IsGetError(last.err)
                 /\ last.steps[k].kind \in Unresolvable =>
                      \E a \in 1..Len(last.err.args) : last.err.args[a] = Str(last.toks[k])
                 /\ Get(SubSeq(last.toks, 1, k), last.before).err = last.err

\* The scalar a Set value is, through pointers: [ok, v].
Source(value) ==
  LET src == indirect(ValueOf(value))
  IN [ok |-> src.valid /\ src.node.kind \in PrimitiveKinds, v |-> src.node]

IsNumber(v) == v.kind \in IntKinds \cup UintKinds \cup FloatKinds

\* The number a numeric value is, in halves.
Halves(v) == IF v.kind \in FloatKinds THEN v.n ELSE 2 * v.n

\* The text of a scalar: the decimal text of a number, "true" or "false" for
\* a boolean, a string as it is.
TextOf(v) ==
  IF v.kind \in FloatKinds THEN FormatFloat(v.n)
  ELSE IF IsNumber(v) THEN FormatInt(v.n)
  ELSE IF v.kind = "Bool"
    THEN (IF v.b THEN <<"t", "r", "u", "e">> ELSE <<"f", "a", "l", "s", "e">>)
  ELSE v.s

\* The last Set failed with a Set error and the slot holds what it held.
SetFailed(now) == IsSetError(last.err) /\ now = last.slot.node

\* The last Set succeeded and changed nothing of the slot but its content.
SetStored(now) == IsNil(last.err) /\ now.kind = last.slot.node.kind

\* What the last Set must have done to a slot, now holding `now`, given the
\* scalar src.
Coerced(now, src) ==
  LET kind == last.slot.node.kind
  IN IF kind = "String"
       THEN SetStored(now) /\ now.s = TextOf(src)
     ELSE IF kind \in IntKinds \cup UintKinds
       THEN IF IsNumber(src) THEN SetStored(now) /\ now.n = TruncFloat(Halves(src))
            ELSE IF src.kind = "Bool" THEN SetStored(now) /\ now.n = (IF src.b THEN 1 ELSE 0)
            ELSE IF ParseInt(src.s).ok THEN SetStored(now) /\ now.n = ParseInt(src.s).i
            ELSE SetFailed(now)
     ELSE IF kind = "Bool"
       THEN IF IsNumber(src) THEN SetStored(now) /\ now.b = (src.n # 0)
            ELSE IF src.kind = "Bool" THEN SetStored(now)
            ELSE IF ParseBool(src.s).ok THEN SetStored(now) /\ now.b = ParseBool(src.s).b
            ELSE SetFailed(now)
     ELSE IF src.kind = "Bool" THEN SetStored(now) /\ now.n = (IF src.b THEN 2 ELSE 0)
     ELSE IF src.kind = "String" /\ ~ParseFloat(src.s).ok THEN SetFailed(now)
     ELSE SetStored(now)

\* C9: Set on a resolved scalar slot converts the new value into the slot's
\* kind: text for a string slot; for an integer slot the number truncated
\* toward zero (an integer keeps its value whatever the widths), 1/0 for a
\* boolean, the parsed value of a string; (value != 0) or the parsed value
\* for a boolean slot; 1.0/0.0 for a boolean into a float slot.  A string that
\* does not parse fails with a Set error and the slot keeps its value.
C9_SetCoerces ==
  (/\ Called({"Set"})
   /\ CanSet(last.slot)
   /\ last.slot.node.kind \in PrimitiveKinds
   /\ Source(last.value).ok)
  => Coerced(NodeAt(docRoot, last.slot.path), Source(last.value).v)

\* The value is compatible with the root: of the same type as a structured
\* root, a scalar for a string root.
Compatible(root, value) ==
  \/ root.kind \in {"Slice", "Map", "Ptr"} /\ value.type = root.type
  \/ root.kind = "String" /\ Source(value).ok

\* C10: Set with the zero-token pointer targets the document root: when the
\* new value is compatible with the root, Set succeeds and the root holds the
\* new value.
C10_SetRoot ==
  (/\ Called({"Set"})
   /\ last.toks = <<>>
   /\ Compatible(last.before, last.value))
  => /\ IsNil(last.err)
     /\ ~last.panic
     /\ IF last.before.kind = "String"
          THEN docRoot = StringV(TextOf(Source(last.value).v))
          ELSE docRoot = last.value

\* Navigation of the last call failed: one of its tokens did not resolve.
NavigationFailed == ~IsNil(Navigate(ValueOf(last.before), last.toks, <<>>).err)

\* C11: every failure Set returns is a typed error: a Get error when
\* navigation to the slot fails, a Set error when the value cannot be placed
\* into the resolved slot (a slot reached through a map key or held in a
\* dynamically-typed element, an invalid slot, a nil new value); never an
\* untyped error and never an InvalidPointer error.
C11_SetErrorsTyped ==
  (Called({"Set"}) /\ ~last.panic /\ ~IsNil(last.err)) =>
    /\ last.err.kind = "Error"
    /\ last.err.errType # ErrInvalidJSONPointer
    /\ IF NavigationFailed THEN IsGetError(last.err) ELSE IsSetError(last.err)

\* Where the navigation of toks from Value v ends: the place of the last
\* Value it reached, and whether every token resolved.
RECURSIVE Reach(_, _)
Reach(v, toks) ==
  IF toks = <<>> THEN [ok |-> TRUE, path |-> v.path]
  ELSE LET g == getValue(v, toks[1])
       IN IF g.panic \/ ~IsNil(g.err) THEN [ok |-> FALSE, path |-> v.path]
          ELSE Reach(g.val, Tail(toks))

\* What the last call, a Set that stored, leaves alone and what it changes:
\* Get of the same pointer returns the stored value, and Get of every
\* pointer of the set qs returns what it returned before.
Frame(qs) ==
  /\ Get(last.toks, docRoot).out = last.new
  /\ ~Get(last.toks, docRoot).panic
  /\ \A q \in qs : Get(q.p.toks, docRoot) = Get(q.p.toks, last.before)

\* A failed or panicked call, and every Get, leaves the document as it was.
Unchanged ==
  (Called({"Get"}) \/ (Called({"Set"}) /\ ~last.set)) => docRoot = last.before

\* The pointers that are neither a prefix nor an extension of the pointer of
\* the last call, token by token.
Unrelated ==
  { q \in Pointers : ~HasPrefix(q.p.toks, last.toks) /\ ~HasPrefix(last.toks, q.p.toks) }

\* The pointers whose navigation in the document neither reaches the slot of
\* the last call nor ends above it.
Apart ==
  { q \in Pointers :
      LET r == Reach(ValueOf(last.before), q.p.toks)
      IN /\ ~HasPrefix(r.path, last.slot.path)
         /\ r.ok => ~HasPrefix(last.slot.path, r.path) }

\* C12 as stated: Get never changes the document; a Set that returns an error
\* leaves it unchanged; a Set on p that succeeds changes only the slot at p:
\* p.Get returns the stored value and q.Get returns what it did before for
\* every q that is neither a prefix nor an extension of p.
C12_FrameByTokens ==
  /\ Unchanged
  /\ (Called({"Set"}) /\ last.set) => Frame(Unrelated)

\* C12 as amended: the same, for every q whose navigation neither reaches
\* the slot at p nor ends at a value that contains it (two pointers with
\* different tokens can name the same slot).
C12_Frame ==
  /\ Unchanged
  /\ (Called({"Set"}) /\ last.set) => Frame(Apart)

\* A Set stored a new value in a slot, and some other pointer resolves to a
\* value apart from that slot.
C12_Witness ==
  /\ Called({"Set"})
  /\ last.set
  /\ docRoot # last.before
  /\ \E q \in Apart : IsNil(Get(q.p.toks, docRoot).err) /\ ~Get(q.p.toks, docRoot).panic

====
